---------------------------- MODULE Spec2Model ----------------------------
(***************************************************************************)
(* Incremental BigQuery -> PostgreSQL event synchronisation                *)
(* (flask_server.py): the checkpoint file, the extraction query, the       *)
(* event-parameter normalisation, the ON CONFLICT DO NOTHING load and the  *)
(* is_running guard that the scheduler thread and the POST /trigger        *)
(* handler both go through; and the batch loader of extract_bq.py.        *)
(*                                                                         *)
(* Time is counted in hours since the epoch (the code counts microseconds; *)
(* only the order of timestamps and the lookback subtraction matter).      *)
(* Python's None is the integer -1 where the field holds a number and the  *)
(* string "NULL" where it holds a string.                                  *)
(***************************************************************************)
EXTENDS Integers, Sequences, FiniteSets, TLC

\* ------------------------------------------------------------------ bounds
MaxTs      == 2   \* event timestamps range over 1..MaxTs
MaxTicks   == 1   \* the wall clock advances at most this many hours
MaxCalls   == 2   \* invocations of run_etl (scheduler ticks + triggers)
MaxParams  == 3   \* longest attribute list given to the normaliser
MaxRuns    == 3   \* scheduled runs in the daily-run scenario
MaxRows    == 3   \* longest list given to extract_bq.py's load_to_postgres
MaxBatch   == 2   \* largest batch_size given to it
MaxLoads   == 2   \* calls of it
PageSize   == 1   \* rows per page of run_etl's execute_batch (1000 in
                  \* the code, scaled to the windows of the model)

\* ------------------------------------------------------- program constants
ETL_LOOKBACK_HOURS == 24

EVENTS == {"select_menu_category", "open_item_details",
           "select_commerce_category", "select_vendor",
           "add_item_to_favorites", "view_item"}

None == -1
NULL == "NULL"

\* The two threads that call run_etl: the APScheduler job and a Flask
\* request handler serving POST /trigger.
Procs == {"sched", "http"}

\* ------------------------------------------------------------- the warehouse
Param(k, sv) == [key |-> k, string_value |-> sv]

RawEvent(u, t, n, ps) ==
    [user_id |-> u, event_name |-> n, event_timestamp |-> t,
     event_params |-> ps, event_date |-> t]

\* a row whose event_params column is NULL (row.event_params is None)
RawEventNoParams(u, t, n) ==
    [user_id |-> u, event_name |-> n, event_timestamp |-> t, event_date |-> t]

\* The events the warehouse may receive: one allow-listed event per
\* timestamp, and an event without user id.
Catalog ==
    { RawEvent("u1", t, "view_item",
               <<Param("id", "A"), Param("name", "N")>>) : t \in 1..MaxTs }
    \cup { RawEvent("", 1, "view_item", <<>>) }

\* The daily-run scenario: three events are in the warehouse when the
\* service is first started, the oldest at or before every fallback cutoff;
\* later the warehouse receives a fourth event, possibly twice with
\* different attributes.  Stamp[i] is the timestamp of the i-th event.
Stamp == <<0, 2, 3, 4>>

Scenario(i) ==
    RawEvent("u1", Stamp[i], "view_item",
             <<Param("id", "A"), Param("name", "N")>>)

Old == { Scenario(i) : i \in 1..3 }

Late == { Scenario(4),
          RawEvent("u1", Stamp[4], "view_item", <<Param("id", "B")>>) }

\* Events of every kind the query has to tell apart, received after the
\* service was started: one that qualifies, one with a NULL user id, one with
\* an empty user id, one whose name is not in EVENTS, and one that carries
\* the timestamp of an event already in the warehouse.
Mixed ==
    { Scenario(4),
      RawEvent(NULL, Stamp[4], "view_item", <<>>),
      RawEvent("", Stamp[4], "view_item", <<>>),
      RawEvent("u1", Stamp[4], "purchase", <<>>),
      RawEvent("u2", Stamp[3], "view_item", <<>>) }

\* The attribute lists given to the normaliser on its own: an entry's value
\* holds a string or none (NULL: an int/float value, or no value at all).
ParamEntries ==
    { Param(k, sv) : k \in {"id", "name", "qty"}, sv \in {"A", "B", NULL} }

ParamLists == UNION { [1..n -> ParamEntries] : n \in 0..MaxParams }

\* the rows given to the normaliser on its own
NormInputs ==
    { RawEvent(u, t, "view_item", ps) :
        u \in {"u1", "u2"}, t \in 1..MaxTs, ps \in ParamLists }
    \cup { RawEventNoParams(u, t, "view_item") :
              u \in {"u1", "u2"}, t \in 1..MaxTs }

\* ------------------------------------------------------------------- state
VARIABLES
    now,          \* the last value datetime.now() returned, in hours
    upstream,     \* rows of the BigQuery wildcard table when last queried
    dest,         \* committed rows of the PostgreSQL table
    file,         \* TIMESTAMP_FILE: absent, empty (truncated) or an integer
    etl_status,   \* the module-level dict etl_status
    pc,           \* position of each thread
    loc,          \* locals of each thread's run_etl frame (and run history)
    calls,        \* invocations so far
    result_by,    \* history: the thread whose run wrote last_result
    prev,         \* history: the run that finished last
    seen,         \* history: every event some run's query returned
    lastInt,      \* history: last integer the checkpoint file held
    norm_in,      \* a row given to the normalisation loop on its own
    norm_out,     \* <<the tuple made of it>>, or <<>> before the loop ran
    ldr           \* extract_bq.py: one call of load_to_postgres

vars == <<now, upstream, dest, file, etl_status, pc, loc, calls,
          result_by, prev, seen, lastInt, norm_in,
          norm_out, ldr>>

\* --------------------------------------------------------- checkpoint file
Absent    == [state |-> "absent", value |-> 0]
Empty     == [state |-> "empty",  value |-> 0]
IntFile(n) == [state |-> "int", value |-> n]

\* datetime.now() never goes back: a call returns the last value read or a
\* later one
Clock == now..(ETL_LOOKBACK_HOURS + MaxTicks)

\* (variant: the lookback is not subtracted)
FallbackNoLookback(t) == t

\* the fallback of read_last_timestamp: now minus the lookback window
Fallback(t) == t - ETL_LOOKBACK_HOURS

\* ------------------------------------------------------------ normalisation
\* The loop over row.event_params: every entry is visited, and an entry
\* whose key is 'id' (resp. 'name') assigns its string_value.
RECURSIVE ScanParams(_, _, _)
ScanParams(ps, k, acc) ==
    IF ps = <<>> THEN acc
    ELSE ScanParams(Tail(ps), k,
                    IF Head(ps).key = k THEN Head(ps).string_value ELSE acc)

\* (variant: the value of the last entry, whatever its key)
ExtractParamAnyKey(ps, k) == ps[Len(ps)].string_value

ExtractParam(ps, k) == ScanParams(ps, k, NULL)

\* if row.event_params: false for None and for an empty list
HasParams(row) == "event_params" \in DOMAIN row /\ row.event_params # <<>>

\* the tuple appended to all_data for one row
Tuple(row) ==
    [user_id           |-> row.user_id,
     event_date        |-> row.event_date,
     event_timestamp   |-> row.event_timestamp,
     event_name        |-> row.event_name,
     event_id          |-> IF HasParams(row)
                           THEN ExtractParam(row.event_params, "id")
                           ELSE NULL,
     event_name_detail |-> IF HasParams(row)
                           THEN ExtractParam(row.event_params, "name")
                           ELSE NULL]

RECURSIVE AllData(_)
AllData(rows) ==
    IF rows = <<>> THEN <<>> ELSE <<Tuple(Head(rows))>> \o AllData(Tail(rows))

\* max_timestamp after the loop, started at last_timestamp
TrackMax(m, t) == IF t > m THEN t ELSE m

\* (variant: the user id is not looked at)
QueryAnyUser(table, w) ==
    { e \in table : /\ e.event_name \in EVENTS
                       /\ e.event_timestamp > w }

\* (variant: event_timestamp >= last_timestamp)
QueryInclusive(table, w) ==
    { e \in table : /\ e.user_id # NULL
                       /\ e.user_id # ""
                       /\ e.event_name \in EVENTS
                       /\ e.event_timestamp >= w }

\* (variant: takes the first row for the newest, as the export scripts'
\* ORDER BY event_timestamp DESC would make it)
MaxTimestampFirstRow(m, rows) ==
    IF rows = <<>> THEN m ELSE TrackMax(m, Head(rows).event_timestamp)

RECURSIVE MaxTimestamp(_, _)
MaxTimestamp(m, rows) ==
    IF rows = <<>> THEN m
    ELSE MaxTimestamp(TrackMax(m, Head(rows).event_timestamp), Tail(rows))

\* --------------------------------------------------------------- extraction
\* WHERE user_id IS NOT NULL AND user_id != '' AND event_name IN (...)
\*   AND event_timestamp > last_timestamp
Query(table, w) ==
    { e \in table : /\ e.user_id # NULL
                       /\ e.user_id # ""
                       /\ e.event_name \in EVENTS
                       /\ e.event_timestamp > w }

\* ORDER BY event_timestamp ASC: any order of the rows that is ascending
\* (rows of equal timestamp come in an order the warehouse picks)
Orderings(S) ==
    { s \in [1..Cardinality(S) -> S] :
        \A i, j \in 1..Cardinality(S) :
            i < j => /\ s[i] # s[j]
                     /\ s[i].event_timestamp <= s[j].event_timestamp }

\* --------------------------------------------------------------------- load
Key(r) == <<r.user_id, r.event_timestamp, r.event_name>>
Keys(S) == { Key(r) : r \in S }

\* a row of the table: the inserted tuple and its SERIAL id (values the
\* sequence skips on a conflict are not modelled)
DestRow(t, n) ==
    [id |-> n, user_id |-> t.user_id, event_date |-> t.event_date,
     event_timestamp |-> t.event_timestamp, event_name |-> t.event_name,
     event_id |-> t.event_id, event_name_detail |-> t.event_name_detail]

\* (variant: ON CONFLICT ... DO UPDATE SET, as ETL.py writes it)
InsertOneUpsert(d, t) ==
    { r \in d : Key(r) # Key(t) } \cup {DestRow(t, Cardinality(d) + 1)}

\* UNIQUE(user_id, event_timestamp, event_name) ... ON CONFLICT DO NOTHING
InsertOne(d, t) ==
    IF Key(t) \in Keys(d) THEN d ELSE d \cup {DestRow(t, Cardinality(d) + 1)}

\* (variant: the statements run but the transaction is never committed)
InsertAllUncommitted(d, data) == d

RECURSIVE InsertAll(_, _)
InsertAll(d, data) ==
    IF data = <<>> THEN d ELSE InsertAll(InsertOne(d, Head(data)), Tail(data))

\* cursor.rowcount after execute_batch: the count of the last statement sent
RowCount(d, data) ==
    LET n == Len(data)
        before == InsertAll(d, SubSeq(data, 1, n - 1))
    IN  IF Key(data[n]) \in Keys(before) THEN 0 ELSE 1

Range(s) == { s[i] : i \in 1..Len(s) }

\* ------------------------------------------------------------------ records
NoResult ==
    [status |-> "none", last_processed_timestamp |-> None,
     records_fetched |-> None, records_inserted |-> None,
     duration_seconds |-> None, error |-> "none"]

Status0 ==
    [last_run |-> None, last_result |-> NoResult,
     last_processed_timestamp |-> None, is_running |-> FALSE]

NoPrev ==
    [status |-> "none", cause |-> "none", w0 |-> None, window |-> {},
     solo |-> FALSE, file |-> Absent, readOK |-> FALSE, leaked |-> FALSE]

Loc0 ==
    [last_timestamp |-> None, rows |-> <<>>, all_data |-> <<>>,
     max_timestamp |-> None, rows_loaded |-> None,
     \* pg_conn is an open connection (with its cursor and transaction)
     conn |-> FALSE,
     \* history of the run
     ran |-> FALSE, cause |-> "none", readOK |-> FALSE, solo |-> FALSE,
     sawNew |-> FALSE, added |-> {}, failed_at |-> 0,
     succ |-> FALSE]

\* positions inside the body of run_etl (past the guard, before the end of
\* the finally block)
Body == {"set", "read", "extract", "load", "write",
         "write_data", "record", "except", "finally"}

Active == { p \in Procs : pc[p] \in Body }

\* load_to_postgres of extract_bq.py has not been called
LdrOff ==
    [pc |-> "off", data |-> <<>>, batch_size |-> 1, i |-> 1, batch |-> <<>>,
     row_count |-> 0,
     \* history of the call
     loads |-> 0, dest0 |-> {}, flushed |-> <<>>, failed_batch |-> <<>>]

\* the process has just started; no checkpoint file was ever written
InitProcess ==
    /\ now = ETL_LOOKBACK_HOURS
    /\ dest = {}
    /\ file = Absent
    /\ etl_status = Status0
    /\ pc = [p \in Procs |-> "idle"]
    /\ loc = [p \in Procs |-> Loc0]
    /\ calls = 0
    /\ result_by = "none"
    /\ prev = NoPrev
    /\ seen = {}
    /\ lastInt = None

InitState ==
    /\ InitProcess
    /\ upstream = {}

Init ==
    /\ InitState
    /\ ldr = LdrOff
    /\ norm_in = RawEvent("u1", 1, "view_item", <<>>)
    /\ norm_out = <<>>

\* --------------------------------------------------------------- restart
\* the process dies and is started again: threads and etl_status are lost,
\* the checkpoint file and both stores stay
Crash ==
    /\ \E p \in Procs : pc[p] # "idle"
    /\ pc' = [p \in Procs |-> "idle"]
    /\ loc' = [p \in Procs |-> Loc0]
    /\ etl_status' = Status0
    /\ result_by' = "none"
    /\ prev' = NoPrev
    /\ UNCHANGED <<now, upstream, dest, file, calls, seen, lastInt, norm_in,
                   norm_out, ldr>>

\* ------------------------------------------------------------ entry points
\* the cron trigger fires and the scheduler thread calls run_etl
FireUpTo(p, n) ==
    /\ p = "sched"
    /\ pc[p] = "idle"
    /\ calls < n
    /\ calls' = calls + 1
    /\ pc' = [pc EXCEPT ![p] = "guard"]
    /\ UNCHANGED <<now, upstream, dest, file, etl_status, loc, result_by,
                   prev, seen, lastInt, norm_in, norm_out, ldr>>

Fire(p) == FireUpTo(p, MaxCalls)

\* POST /trigger: 409 if the flag is set, else call run_etl
Trigger(p) ==
    /\ p = "http"
    /\ pc[p] = "idle"
    /\ calls < MaxCalls
    /\ calls' = calls + 1
    /\ pc' = [pc EXCEPT ![p] = IF etl_status.is_running THEN "idle"
                               ELSE "guard"]
    /\ UNCHANGED <<now, upstream, dest, file, etl_status, loc, result_by,
                   prev, seen, lastInt, norm_in, norm_out, ldr>>

\* where a thread goes when run_etl returns
Return(p) == IF p = "http" THEN "reply" ELSE "idle"

\* ----------------------------------------------------------------- run_etl
\* if etl_status['is_running']: return
Guard(p) ==
    /\ pc[p] = "guard"
    /\ IF etl_status.is_running
       THEN /\ pc' = [pc EXCEPT ![p] = Return(p)]
            /\ UNCHANGED loc
       ELSE /\ pc' = [pc EXCEPT ![p] = "set"]
            /\ loc' = [q \in Procs |->
                         IF q = p
                         THEN [loc[q] EXCEPT !.ran = TRUE,
                                             !.solo = (Active = {}),
                                             !.succ = (Active = {})]
                         ELSE IF q \in Active
                              THEN [loc[q] EXCEPT !.solo = FALSE]
                              ELSE loc[q]]
    /\ UNCHANGED <<now, upstream, dest, file, etl_status, calls, result_by,
                   prev, seen, lastInt, norm_in, norm_out, ldr>>

\* etl_status['is_running'] = True
SetRunning(p) ==
    /\ pc[p] = "set"
    /\ etl_status' = [etl_status EXCEPT !.is_running = TRUE]
    /\ pc' = [pc EXCEPT ![p] = "read"]
    /\ UNCHANGED <<now, upstream, dest, file, loc, calls, result_by, prev,
                   seen, lastInt, norm_in, norm_out, ldr>>

\* read_last_timestamp: the integer in the file, or the fallback when the
\* file is absent or reading it raises (empty content, I/O error)
ReadLastTimestamp(p) ==
    /\ pc[p] = "read"
    /\ \E ioerror \in BOOLEAN, t \in Clock :
         LET ok == file.state = "int" /\ ~ioerror
         IN  /\ (ioerror => file.state = "int")
             /\ now' = IF ok THEN now ELSE t
             /\ loc' = [loc EXCEPT
                          ![p].last_timestamp =
                              IF ok THEN file.value ELSE Fallback(t),
                          ![p].readOK = (ok \/ file.state = "absent")]
    /\ pc' = [pc EXCEPT ![p] = "extract"]
    /\ UNCHANGED <<upstream, dest, file, etl_status, calls, result_by, prev,
                   seen, lastInt, norm_in, norm_out, ldr>>

\* BigQuery client, psycopg2.connect, CREATE TABLE IF NOT EXISTS, commit,
\* rows = list(bq_client.query(query).result()), any of which may raise;
\* then the loop that fills all_data and tracks max_timestamp; what raises
\* does so before or after pg_conn was opened.  The query
\* sees the table with the events that arrived since it was last queried
\* (the table is append-only and nothing else reads it); cat is the set of
\* events the warehouse may receive.
ExtractFrom(p, cat) ==
    /\ pc[p] = "extract"
    /\ \/ /\ \E arrived \in SUBSET (cat \ upstream) :
                /\ upstream' = upstream \cup arrived
                /\ \E s \in Orderings(Query(upstream', loc[p].last_timestamp)) :
                     loc' = [loc EXCEPT
                               ![p].rows = s,
                               ![p].all_data = AllData(s),
                               ![p].max_timestamp =
                                   MaxTimestamp(loc[p].last_timestamp, s),
                               ![p].conn = TRUE,
                               ![p].sawNew = (arrived # {})]
          /\ seen' = seen \cup Query(upstream', loc[p].last_timestamp)
          /\ pc' = [pc EXCEPT ![p] = "load"]
       \/ /\ pc' = [pc EXCEPT ![p] = "except"]
          /\ \E connected \in BOOLEAN :
                loc' = [loc EXCEPT ![p].cause = "extract",
                                   ![p].conn = connected]
          /\ UNCHANGED <<upstream, seen>>
    /\ UNCHANGED <<now, dest, file, etl_status, calls, result_by, prev,
                   lastInt, norm_in, norm_out, ldr>>

Extract(p) == ExtractFrom(p, Catalog)

\* (variant: the checkpoint is written after every load)
AfterLoadAlwaysWrites(l) == "write"

\* after the load: if max_timestamp > last_timestamp the checkpoint is
\* written, else the result is recorded
AfterLoad(l) ==
    IF l.max_timestamp > l.last_timestamp THEN "write" ELSE "record"

\* execute_batch + commit in one transaction (nothing when all_data is
\* empty), cursor.close, pg_conn.close.  A statement or the commit may
\* raise: what the transaction wrote so far is never committed, and the
\* two close calls are not reached.
Load(p) ==
    /\ pc[p] = "load"
    /\ LET data == loc[p].all_data
       IN  \/ /\ dest' = InsertAll(dest, data)
              /\ loc' = [loc EXCEPT
                           ![p].rows_loaded =
                               IF data = <<>> THEN 0
                               ELSE RowCount(dest, data),
                           ![p].conn = FALSE,
                           ![p].added = Keys(dest') \ Keys(dest)]
              /\ pc' = [pc EXCEPT ![p] = AfterLoad(loc[p])]
           \/ /\ \E k \in 1..Len(data) :
                    /\ pc' = [pc EXCEPT ![p] = "except"]
                    /\ loc' = [loc EXCEPT ![p].cause = "load",
                                           ![p].failed_at = k]
              /\ UNCHANGED dest
    /\ UNCHANGED <<now, upstream, file, etl_status, calls, result_by, prev,
                   seen, lastInt, norm_in, norm_out, ldr>>

\* (variant: a failed write is tried again)
OnWriteErrorRetries == "write"

\* (variant: write_last_timestamp logs the error and returns)
OnWriteErrorSwallowed == "record"

\* write_last_timestamp re-raises what open or write raised
OnWriteError == "except"

\* write_last_timestamp, first half: open(TIMESTAMP_FILE, 'w') truncates
WriteOpen(p) ==
    /\ pc[p] = "write"
    /\ \/ /\ file' = Empty
          /\ pc' = [pc EXCEPT ![p] = "write_data"]
          /\ UNCHANGED loc
       \/ /\ pc' = [pc EXCEPT ![p] = OnWriteError]
          /\ loc' = [loc EXCEPT ![p].cause = "write"]
          /\ UNCHANGED file
    /\ UNCHANGED <<now, upstream, dest, etl_status, calls, result_by, prev,
                   seen, lastInt, norm_in, norm_out, ldr>>

\* write_last_timestamp, second half: f.write(str(timestamp)) and close;
\* then etl_status['last_processed_timestamp'] = max_timestamp
WriteData(p) ==
    /\ pc[p] = "write_data"
    /\ \/ /\ file' = IntFile(loc[p].max_timestamp)
          /\ lastInt' = loc[p].max_timestamp
          /\ etl_status' = [etl_status EXCEPT
                              !.last_processed_timestamp =
                                  loc[p].max_timestamp]
          /\ pc' = [pc EXCEPT ![p] = "record"]
          /\ UNCHANGED loc
       \/ /\ pc' = [pc EXCEPT ![p] = OnWriteError]
          /\ loc' = [loc EXCEPT ![p].cause = "write"]
          /\ UNCHANGED <<file, lastInt, etl_status>>
    /\ UNCHANGED <<now, upstream, dest, calls, result_by, prev, seen,
                   norm_in, norm_out, ldr>>

\* the result dict of a run that reached the end of the try block (how long
\* the run took is not modelled; last_processed_time is the same instant
\* as last_processed_timestamp, formatted)
SuccessResult(l) ==
    [status |-> "success",
     last_processed_timestamp |-> l.max_timestamp,
     records_fetched |-> Len(l.all_data),
     records_inserted |-> l.rows_loaded,
     duration_seconds |-> 0,
     error |-> "none"]

\* the result dict the except clause stores
FailedResult(l) == [NoResult EXCEPT !.status = "failed", !.error = l.cause]

\* etl_status['last_run'] = ...; etl_status['last_result'] = result
Record(p) ==
    /\ pc[p] = "record"
    /\ \E t \in Clock : now' = t
    /\ etl_status' = [etl_status EXCEPT !.last_run = now',
                                        !.last_result = SuccessResult(loc[p])]
    /\ result_by' = p
    /\ pc' = [pc EXCEPT ![p] = "finally"]
    /\ UNCHANGED <<upstream, dest, file, loc, calls, prev, seen, lastInt,
                   norm_in, norm_out, ldr>>

\* except Exception as e: last_result = failed, last_run = now
Except(p) ==
    /\ pc[p] = "except"
    /\ \E t \in Clock : now' = t
    /\ etl_status' = [etl_status EXCEPT !.last_run = now',
                                        !.last_result = FailedResult(loc[p])]
    /\ result_by' = p
    /\ pc' = [pc EXCEPT ![p] = "finally"]
    /\ UNCHANGED <<upstream, dest, file, loc, calls, prev, seen, lastInt,
                   norm_in, norm_out, ldr>>

\* (variant: the flag is not reset when the run ends)
FlagAtExitLeftSet == TRUE

\* the value the finally block gives etl_status['is_running']
FlagAtExit == FALSE

\* whether a connection is open once run_etl has returned: neither the
\* except clause nor the finally block closes or rolls back, so a connection
\* the run left open stays open until the interpreter reclaims the object,
\* which may or may not have happened
StillOpen(c) == IF c THEN BOOLEAN ELSE {FALSE}

\* finally: etl_status['is_running'] = False, and run_etl returns
Finally(p) ==
    /\ pc[p] = "finally"
    /\ etl_status' = [etl_status EXCEPT !.is_running = FlagAtExit]
    /\ \E open \in StillOpen(loc[p].conn) :
        prev' = [status |-> IF loc[p].cause = "none" THEN "success"
                           ELSE "failed",
                cause |-> loc[p].cause,
                w0 |-> loc[p].last_timestamp,
                window |-> Range(loc[p].rows),
                solo |-> loc[p].solo,
                file |-> file,
                readOK |-> loc[p].readOK,
                leaked |-> open]
    /\ pc' = [pc EXCEPT ![p] = Return(p)]
    /\ loc' = [loc EXCEPT ![p] =
                 IF p = "http" THEN [Loc0 EXCEPT !.ran = TRUE] ELSE Loc0]
    /\ UNCHANGED <<now, upstream, dest, file, calls, result_by, seen,
                   lastInt, norm_in, norm_out, ldr>>

\* what trigger answers after run_etl returned:
\* jsonify({'status': 'success', 'result': etl_status['last_result']})
TriggerReply == [code |-> 200, status |-> "success",
                 result |-> etl_status.last_result]

\* trigger sends TriggerReply and the handler ends
Reply(p) ==
    /\ pc[p] = "reply"
    /\ pc' = [pc EXCEPT ![p] = "idle"]
    /\ loc' = [loc EXCEPT ![p] = Loc0]
    /\ UNCHANGED <<now, upstream, dest, file, etl_status, calls, result_by,
                   prev, seen, lastInt, norm_in, norm_out, ldr>>

\* (variant: status stores the fallback it computed in the checkpoint file)
StatusRepairsFile ==
    /\ file.state # "int"
    /\ \E t \in Clock :
         /\ now' = t
         /\ file' = IntFile(Fallback(t))
    /\ UNCHANGED <<upstream, dest, etl_status, pc, loc, calls, result_by,
                   prev, seen, lastInt, norm_in, norm_out, ldr>>

\* GET /status: read_last_timestamp (which reads the clock when it falls
\* back), then the reply made of etl_status and the value read
Status ==
    /\ \E ioerror \in BOOLEAN, t \in Clock :
         now' = IF file.state = "int" /\ ~ioerror THEN now ELSE t
    /\ UNCHANGED <<upstream, dest, file, etl_status, pc, loc, calls,
                   result_by, prev, seen, lastInt, norm_in, norm_out, ldr>>

\* the steps of run_etl other than the query
Step(p) ==
    \/ Guard(p) \/ SetRunning(p) \/ ReadLastTimestamp(p) \/ Load(p)
    \/ WriteOpen(p) \/ WriteData(p) \/ Record(p) \/ Except(p) \/ Finally(p)

Run(p) == Fire(p) \/ Trigger(p) \/ Extract(p) \/ Step(p) \/ Reply(p)

Next == Crash \/ Status \/ \E p \in Procs : Run(p)

Spec == Init /\ [][Next]_vars

\* The same program when no invocation arrives while the other thread is
\* inside trigger or run_etl (the cron tick and the operator's POST never
\* coincide).
Others(p) == Procs \ {p}

NextSeq ==
    \/ Crash
    \/ Status
    \/ \E p \in Procs : (\A q \in Others(p) : pc[q] = "idle") /\ Run(p)

SpecSeq == Init /\ [][NextSeq]_vars

\* ---------------------------------- scheduled runs over a given warehouse
\* Only the scheduler thread calls run_etl, MaxRuns times, on a warehouse
\* that held the events Old before the first run.
InitRuns ==
    /\ InitProcess
    /\ upstream = Old
    /\ ldr = LdrOff
    /\ norm_in = RawEvent("u1", 1, "view_item", <<>>)
    /\ norm_out = <<>>

NextRuns ==
    \/ FireUpTo("sched", MaxRuns)
    \/ ExtractFrom("sched", Late)
    \/ Step("sched")

SpecRuns == InitRuns /\ [][NextRuns]_vars

\* The same runs on a warehouse that receives the events Mixed.
NextMixed ==
    \/ FireUpTo("sched", MaxRuns)
    \/ ExtractFrom("sched", Mixed)
    \/ Step("sched")

SpecMixed == InitRuns /\ [][NextMixed]_vars

\* ------------------------------- extract_bq.py: load_to_postgres on its own
\* the lists of rows extract_data may hand to load_to_postgres
LoadInputs ==
    UNION { [1..n -> {Scenario(3)} \cup Late] : n \in 0..MaxRows }

InitLoad ==
    /\ InitState
    /\ ldr = LdrOff
    /\ norm_in = RawEvent("u1", 1, "view_item", <<>>)
    /\ norm_out = <<>>

\* extractor.load_to_postgres(data, args.batch_size) is called
LoaderCall ==
    /\ ldr.pc \in {"off", "returned", "raised"}
    /\ ldr.loads < MaxLoads
    /\ \E data \in LoadInputs, bs \in 1..MaxBatch :
         ldr' = [pc |-> "setup", data |-> data, batch_size |-> bs, i |-> 1,
                 batch |-> <<>>, row_count |-> 0, loads |-> ldr.loads + 1,
                 dest0 |-> dest, flushed |-> <<>>, failed_batch |-> <<>>]
    /\ UNCHANGED <<now, upstream, dest, file, etl_status, pc, loc, calls,
                   result_by, prev, seen, lastInt, norm_in, norm_out>>

\* CREATE TABLE IF NOT EXISTS ...; commit -- or one of them raises
LoaderSetup ==
    /\ ldr.pc = "setup"
    /\ \/ ldr' = [ldr EXCEPT !.pc = "loop"]
       \/ ldr' = [ldr EXCEPT !.pc = "raised"]
    /\ UNCHANGED <<now, upstream, dest, file, etl_status, pc, loc, calls,
                   result_by, prev, seen, lastInt, norm_in, norm_out>>

\* row_count += len(batch)
Counted(n, batch) == n + Len(batch)

\* execute_batch(cursor, insert_query, batch); commit; row_count += ...;
\* or one of the statements or the commit raises and the except clause
\* rolls the open transaction back and re-raises
Flush(b, then) ==
    \/ /\ dest' = InsertAll(dest, b)
       /\ ldr' = [ldr EXCEPT !.pc = then, !.i = @ + 1, !.batch = <<>>,
                             !.row_count = Counted(@, b),
                             !.flushed = @ \o b]
    \/ /\ UNCHANGED dest
       /\ ldr' = [ldr EXCEPT !.pc = "raised", !.batch = b,
                             !.failed_batch = b]

\* one iteration of `for row in data`
LoaderRow ==
    /\ ldr.pc = "loop"
    /\ ldr.i <= Len(ldr.data)
    /\ LET b == Append(ldr.batch, Tuple(ldr.data[ldr.i]))
       IN  IF Len(b) >= ldr.batch_size
           THEN Flush(b, "loop")
           ELSE /\ ldr' = [ldr EXCEPT !.i = @ + 1, !.batch = b]
                /\ UNCHANGED dest
    /\ UNCHANGED <<now, upstream, file, etl_status, pc, loc, calls,
                   result_by, prev, seen, lastInt, norm_in, norm_out>>

\* after the loop: load the remaining rows, cursor.close, return row_count
LoaderRest ==
    /\ ldr.pc = "loop"
    /\ ldr.i > Len(ldr.data)
    /\ IF ldr.batch # <<>>
       THEN Flush(ldr.batch, "returned")
       ELSE /\ ldr' = [ldr EXCEPT !.pc = "returned"]
            /\ UNCHANGED dest
    /\ UNCHANGED <<now, upstream, file, etl_status, pc, loc, calls,
                   result_by, prev, seen, lastInt, norm_in, norm_out>>

NextLoad == LoaderCall \/ LoaderSetup \/ LoaderRow \/ LoaderRest

SpecLoad == InitLoad /\ [][NextLoad]_vars

\* ------------------------------------------- the normalisation loop alone
InitNorm ==
    /\ InitState
    /\ ldr = LdrOff
    /\ norm_in \in NormInputs
    /\ norm_out = <<>>

\* one pass of the loop body of run_etl over the row norm_in
NormalizeRow ==
    /\ norm_out = <<>>
    /\ norm_out' = <<Tuple(norm_in)>>
    /\ UNCHANGED <<now, upstream, dest, file, etl_status, pc, loc, calls,
                   result_by, prev, seen, lastInt, norm_in, ldr>>

NextNorm == NormalizeRow

SpecNorm == InitNorm /\ [][NextNorm]_vars

\* ===================================================================== claims

\* C1: at most one execution of the body of run_etl is active at a time
\* (of two simultaneous invocations only one gets past the is_running guard).
C1_SingleFlight == Cardinality(Active) <= 1

\* C2: no execution writes a checkpoint value smaller than the last value
\* the checkpoint file held.
C2_MonotonicWatermark ==
    [][file'.state = "int" => file'.value >= lastInt]_vars

\* C3: whenever a run is about to write the checkpoint, is writing it or has
\* written it, every row that run extracted is committed in the destination.
C3_WriteAfterCommit ==
    \A p \in Procs :
        (\/ pc[p] \in {"write", "write_data", "record"}
         \/ (pc[p] = "finally" /\ loc[p].cause = "none"))
        => Keys(Range(loc[p].all_data)) \subseteq Keys(dest)

C3_Witness ==
    \E p \in Procs :
        /\ pc[p] = "record"
        /\ Len(loc[p].all_data) >= 2
        /\ file = IntFile(loc[p].max_timestamp)
        /\ loc[p].max_timestamp > loc[p].last_timestamp

\* C4: after a run that failed while connecting, extracting or loading, the
\* next run reads the same starting watermark as the failed run did.
C4_RetryFromSameWatermark ==
    \A p \in Procs :
        (/\ pc[p] = "extract"
         /\ loc[p].succ
         /\ prev.status = "failed"
         /\ prev.cause \in {"extract", "load"})
        => loc[p].last_timestamp = prev.w0

\* C5: every event some run's query returned has its row in the destination
\* once the persisted watermark is at or above the event's timestamp.
C5_NoEventLost ==
    \A e \in seen :
        (file.state = "int" /\ file.value >= e.event_timestamp)
        => Key(e) \in Keys(dest)

C7_RetryAfterPartialLoad ==
    \A p \in Procs :
        (/\ pc[p] = "finally"
         /\ loc[p].cause = "none"
         /\ loc[p].succ
         /\ prev.cause = "load"
         /\ Cardinality(prev.window) >= 2)
        => (/\ loc[p].last_timestamp = prev.w0
            /\ Keys(prev.window) \subseteq Keys(dest))

\* C8: a 200 reply of POST /trigger carries the result of the run that this
\* request executed: the request executed a run, and last_result is that
\* run's.
C8_ReplyIsOwnRun ==
    [][\A p \in Procs : Reply(p) => (loc[p].ran /\ result_by = p)]_vars

ParamsOf(row) ==
    IF "event_params" \in DOMAIN row THEN row.event_params ELSE <<>>

\* the string value of the first entry of ps whose key is k, NULL if none
FirstValue(ps, k) ==
    LET hits == { i \in 1..Len(ps) : ps[i].key = k }
    IN  IF hits = {} THEN NULL
        ELSE ps[CHOOSE i \in hits : \A j \in hits : i <= j].string_value

\* C10: the normalised secondary id (resp. label) is the string value of the
\* first entry with key 'id' (resp. 'name') of the attribute list.
C10_FirstOccurrenceWins ==
    norm_out # <<>> =>
        /\ norm_out[1].event_id = FirstValue(ParamsOf(norm_in), "id")
        /\ norm_out[1].event_name_detail
               = FirstValue(ParamsOf(norm_in), "name")

\* the keys that occur in the attribute list of a row
ParamKeys(row) == { ParamsOf(row)[i].key : i \in 1..Len(ParamsOf(row)) }

\* C11: normalisation yields exactly one row with user id, partition date,
\* timestamp and event name of the raw event; without an 'id' key the
\* secondary id is null, without a 'name' key the label is null, and an
\* absent attribute list gives the same row as an empty one.
C11_NormalizeOneRow ==
    norm_out # <<>> =>
        /\ Len(norm_out) = 1
        /\ norm_out[1].user_id = norm_in.user_id
        /\ norm_out[1].event_date = norm_in.event_date
        /\ norm_out[1].event_timestamp = norm_in.event_timestamp
        /\ norm_out[1].event_name = norm_in.event_name
        /\ ("id" \notin ParamKeys(norm_in) => norm_out[1].event_id = NULL)
        /\ ("name" \notin ParamKeys(norm_in)
               => norm_out[1].event_name_detail = NULL)
        /\ ("event_params" \notin DOMAIN norm_in
               => norm_out[1]
                    = Tuple(RawEvent(norm_in.user_id, norm_in.event_timestamp,
                                     norm_in.event_name, <<>>)))

C11_Witness ==
    /\ norm_out # <<>>
    /\ "event_params" \notin DOMAIN norm_in
    /\ norm_out[1].event_id = NULL
    /\ norm_out[1].event_name_detail = NULL

\* C12: the destination never holds two rows with the same natural key, and
\* no step changes or removes a row the destination holds (a row whose key
\* exists is skipped, the existing row keeps its fields).
C12_NaturalKeyUnique ==
    [][/\ \A r \in dest : r \in dest'
       /\ \A r1, r2 \in dest' : Key(r1) = Key(r2) => r1 = r2]_vars

C12_Witness ==
    \E p \in Procs :
        /\ pc[p] \in {"write", "record"}
        /\ \E i \in 1..Len(loc[p].all_data) :
             \E r \in dest :
                /\ Key(r) = Key(loc[p].all_data[i])
                /\ r.event_id # loc[p].all_data[i].event_id

\* C13: the inserted-row count the loader reports (records_inserted of
\* run_etl, the return value of load_to_postgres) is at most the number of
\* rows that load added to the destination.
C13_CountNotAboveAdded ==
    /\ ldr.pc = "returned"
          => ldr.row_count <= Cardinality(dest) - Cardinality(ldr.dest0)
    /\ \A p \in Procs :
          pc[p] \in {"write", "write_data", "record"}
          => loc[p].rows_loaded <= Cardinality(loc[p].added)

C15_AtomicCheckpoint == file.state \in {"absent", "int"}

\* C16: with no checkpoint and the events T1..T3 in the warehouse, T1 not
\* after the fallback cutoff and T2, T3 after it, the first run leaves
\* exactly the rows of T2 and T3 and the checkpoint T3; a second run with no
\* new data adds no row and leaves the checkpoint T3; a third run after one
\* new event T4 adds exactly that row and writes the checkpoint T4.
C16_EndToEnd ==
    LET l    == loc["sched"]
        done == pc["sched"] = "finally" /\ l.cause = "none"
    IN  /\ (/\ done /\ calls = 1
            /\ Stamp[1] <= l.last_timestamp /\ l.last_timestamp < Stamp[2]
            /\ upstream = Old)
           => /\ Keys(dest) = Keys({Scenario(2), Scenario(3)})
              /\ Cardinality(dest) = 2
              /\ file = IntFile(Stamp[3])
        /\ (/\ done /\ calls = 2
            /\ prev.status = "success"
            /\ prev.window = {Scenario(2), Scenario(3)}
            /\ prev.file = IntFile(Stamp[3])
            /\ upstream = Old)
           => /\ l.added = {}
              /\ Cardinality(dest) = 2
              /\ file = IntFile(Stamp[3])
        /\ (/\ done /\ calls = 3
            /\ prev.status = "success"
            /\ prev.window = {}
            /\ prev.w0 = Stamp[3]
            /\ prev.file = IntFile(Stamp[3])
            /\ Cardinality(upstream \ Old) = 1)
           => /\ l.added = Keys(upstream \ Old)
              /\ Cardinality(l.added) = 1
              /\ file = IntFile(Stamp[4])

C16_Witness ==
    /\ pc["sched"] = "finally"
    /\ loc["sched"].cause = "none"
    /\ calls = 3
    /\ prev.status = "success"
    /\ prev.window = {}
    /\ prev.w0 = Stamp[3]
    /\ upstream = Old \cup {Scenario(4)}
    /\ loc["sched"].added = {Key(Scenario(4))}
    /\ Keys(dest) = Keys({Scenario(2), Scenario(3), Scenario(4)})
    /\ Cardinality(dest) = 3
    /\ file = IntFile(Stamp[4])

\* positions of run_etl after is_running was set and before it is reset
Started == Body \ {"set"}

\* C17: a thread leaves the body of run_etl only through the finally block
\* (or when the process dies), whatever was raised, and is_running is false
\* right after; whenever is_running is true some thread is still inside the
\* body and will reset it, so the flag never stays set.
C17_FlagNeverStuck ==
    [][/\ \A p \in Procs :
            (pc[p] \in Started /\ pc'[p] \notin Started)
            => /\ (pc[p] = "finally" \/ Crash)
               /\ ~etl_status'.is_running
       /\ etl_status'.is_running => \E p \in Procs : pc'[p] \in Started]_vars

C17_Witness ==
    \E p \in Procs :
        /\ pc[p] = "read"
        /\ loc[p].solo
        /\ prev.status = "failed"
        /\ etl_status.last_result.status = "failed"

\* C18: when a run has recorded its result (it is at the finally block and
\* last_result is its own), the result holds the outcome, the fetched and
\* inserted counts and the duration, last_run holds the run's time, and a
\* failed result also holds the error.
C18_ResultComplete ==
    \A p \in Procs :
        (pc[p] = "finally" /\ result_by = p)
        => LET r == etl_status.last_result
           IN  /\ r.status = (IF loc[p].cause = "none" THEN "success"
                              ELSE "failed")
               /\ etl_status.last_run # None
               /\ r.records_fetched # None
               /\ r.records_inserted # None
               /\ r.duration_seconds # None
               /\ (r.status = "failed" => r.error # "none")

\* C19: run_etl returning at the guard and POST /trigger answering 409
\* leave etl_status (is_running included), the checkpoint file and the
\* destination as they were, and GET /status changes none of them either.
C19_RejectionHasNoEffect ==
    [][/\ \A p \in Procs :
            (etl_status.is_running /\ (Guard(p) \/ Trigger(p)))
            => /\ UNCHANGED <<etl_status, file, dest>>
               /\ pc'[p] \in {"idle", "reply"}
       /\ Status => UNCHANGED <<etl_status, file, dest>>]_vars

C19_Witness ==
    \E p \in Procs :
        /\ pc[p] = "reply"
        /\ ~loc[p].ran
        /\ etl_status.is_running
        /\ Active # {}

\* the rows of the pages before the page that holds row k
EarlierPages(data, k) == SubSeq(data, 1, PageSize * ((k - 1) \div PageSize))

\* C20: when writing batch k fails, the rows of the batches before it are
\* committed in the destination and no later batch was written, both in
\* run_etl's load and in load_to_postgres of extract_bq.py.
C20_EarlierBatchesCommitted ==
    /\ \A p \in Procs :
          (pc[p] = "except" /\ loc[p].cause = "load")
          => Keys(Range(EarlierPages(loc[p].all_data, loc[p].failed_at)))
                 \subseteq Keys(dest)
    /\ (ldr.pc = "raised" /\ ldr.failed_batch # <<>>)
          => dest = InsertAll(ldr.dest0, ldr.flushed)

\* the events of a table that the extraction of a run starting at w0 is to
\* return
Qualifying(table, w0) ==
    { e \in table : /\ e.user_id \notin {NULL, ""}
                       /\ e.event_name \in EVENTS
                       /\ e.event_timestamp > w0 }

\* C21: the rows a run extracts are exactly the events of the warehouse with
\* a timestamp strictly above its starting watermark, an allow-listed name
\* and a user id neither null nor empty, each once, in ascending timestamp
\* order; and every row of the destination has an allow-listed name and a
\* non-empty user id.
C21_ExtractsExactlyTheWindow ==
    [][/\ \A p \in Procs :
            (pc[p] = "extract" /\ pc'[p] = "load")
            => LET rows == loc'[p].rows
               IN  /\ Range(rows)
                        = Qualifying(upstream', loc[p].last_timestamp)
                   /\ Len(rows) = Cardinality(Range(rows))
                   /\ \A i, j \in 1..Len(rows) :
                        i < j => rows[i].event_timestamp
                                    <= rows[j].event_timestamp
                   /\ \A i \in 1..Len(rows) :
                        rows[i].event_timestamp # loc[p].last_timestamp
       /\ \A r \in dest' : /\ r.event_name \in EVENTS
                           /\ r.user_id \notin {NULL, ""}]_vars

C21_Witness ==
    \E p \in Procs :
        /\ pc[p] = "load"
        /\ loc[p].rows = <<Scenario(4)>>
        /\ loc[p].last_timestamp = Stamp[3]
        /\ Mixed \subseteq upstream
        /\ Cardinality(dest) = 2

\* the largest of w0 and the timestamps of rows
MaxOf(w0, rows) ==
    CHOOSE m \in {w0} \cup { r.event_timestamp : r \in Range(rows) } :
        \A n \in {w0} \cup { r.event_timestamp : r \in Range(rows) } : n <= m

\* C22: the value a run writes to the checkpoint file after its load is the
\* largest of its starting watermark and the timestamps of all the rows it
\* extracted: never below the starting watermark, never above the largest
\* extracted timestamp.
C22_WritesMaxOfWindow ==
    [][\A p \in Procs :
          (pc[p] = "write_data" /\ pc'[p] = "record")
          => /\ file' = IntFile(MaxOf(loc[p].last_timestamp, loc[p].rows))
             /\ file'.value >= loc[p].last_timestamp
             /\ \E i \in 1..Len(loc[p].rows) :
                   /\ file'.value = loc[p].rows[i].event_timestamp
                   /\ \A j \in 1..Len(loc[p].rows) :
                         loc[p].rows[j].event_timestamp <= file'.value]_vars

C22_Witness ==
    \E p \in Procs :
        /\ pc[p] = "record"
        /\ Len(loc[p].rows) = 2
        /\ loc[p].rows[1].event_timestamp < loc[p].rows[2].event_timestamp
        /\ file = IntFile(loc[p].rows[2].event_timestamp)
        /\ loc[p].last_timestamp < loc[p].rows[1].event_timestamp

\* C23: a run that extracted no rows goes from the load straight to
\* recording its result, without writing the checkpoint file (an absent file
\* stays absent) and without changing the destination, and the result it
\* records is a success with 0 fetched and 0 inserted.  (A step to "idle"
\* from the load or the record is the process being killed.)
C23_EmptyRunIsNoOp ==
    [][\A p \in Procs :
          (/\ loc[p].rows = <<>>
           /\ loc[p].cause = "none"
           /\ pc[p] \in {"load", "record", "finally"}
           /\ pc'[p] # pc[p])
          => /\ file' = file
             /\ dest' = dest
             /\ pc[p] = "load" => pc'[p] \in {"record", "idle"}
             /\ (pc[p] = "record" /\ pc'[p] # "idle")
                => /\ pc'[p] = "finally"
                   /\ etl_status'.last_result.status = "success"
                   /\ etl_status'.last_result.records_fetched = 0
                   /\ etl_status'.last_result.records_inserted = 0]_vars

C23_Witness ==
    \E p \in Procs :
        /\ pc[p] = "finally"
        /\ loc[p].cause = "none"
        /\ loc[p].rows = <<>>
        /\ file = Absent
        /\ dest = {}
        /\ result_by = p
        /\ etl_status.last_result.status = "success"
        /\ etl_status.last_result.records_fetched = 0
        /\ etl_status.last_result.records_inserted = 0

\* the positions that may follow position a of thread p
StageAfter(p, a) ==
    CASE a = "idle"       -> {"guard"}
      [] a = "guard"      -> {"set", Return(p)}
      [] a = "set"        -> {"read"}
      [] a = "read"       -> {"extract"}
      [] a = "extract"    -> {"load", "except"}
      [] a = "load"       -> {"write", "record", "except"}
      [] a = "write"      -> {"write_data", "except"}
      [] a = "write_data" -> {"record", "except"}
      [] a = "record"     -> {"finally"}
      [] a = "except"     -> {"finally"}
      [] a = "finally"    -> {Return(p)}
      [] a = "reply"      -> {"idle"}

C25_FlagCoversEveryRun ==
    (\E p \in Procs : pc[p] \in Started) => etl_status.is_running

\* C26: once an execution of run_etl has ended, successfully or not, the
\* connection to the destination it opened is closed (and with it its cursor
\* and any transaction left uncommitted).
C26_ConnectionsReleased ==
    prev.status # "none" => ~prev.leaked

=============================================================================
